---- MODULE Spec2Model ----
(***************************************************************************)
(* Model of the registration form of src/src/app/page.tsx (component Home):*)
(* the postal-code (CEP) effect with its address cache and asynchronous    *)
(* lookups, the zod schema behind the react-hook-form resolver, and the    *)
(* step navigation driven by the submit handlers.                          *)
(*                                                                         *)
(* Text values whose characters matter (cep, names, phone, cpf, street     *)
(* number, e-mail) are sequences of one-character strings; the other text  *)
(* values are strings, of which only the length and the identity matter.   *)
(* Messages are written without diacritics.                                *)
(***************************************************************************)
EXTENDS Integers, Sequences, FiniteSets, TLC

VARIABLES
    address,      \* form values of the address group (address.cep is cepValue, line 97)
    personal,     \* form values of the personal group
    account,      \* form values of the account group
    registered,   \* groups whose Controllers have been mounted at least once
    cepDep,       \* the cepValue the cep effect last ran with (its dependency, line 149)
    cepsCache,    \* cepsCache.current (line 103)
    lookups,      \* every getCepData call made so far, with the state of its promise
    lastRun,      \* what the last run of the cep effect did
    activeStep,   \* line 152
    errors,       \* formState.errors as destructured by the last render (line 87)
    isSubmitted,  \* formState.isSubmitted of react-hook-form
    lastSubmit    \* what the last submit attempt did

vars == <<address, personal, account, registered, cepDep, cepsCache, lookups,
          lastRun, activeStep, errors, isSubmitted, lastSubmit>>

lookupVars == <<cepDep, cepsCache, lookups, lastRun>>
formVars == <<personal, account, registered, activeStep, errors, isSubmitted, lastSubmit>>

(***************************************************************************)
(* Bounds of the model.                                                    *)
(***************************************************************************)
MaxLookups == 3

MaxFormLookups == 2

(***************************************************************************)
(* Characters and text helpers.                                            *)
(***************************************************************************)
Digits == {"0", "1", "2", "3", "4", "5", "6", "7", "8", "9"}

Letters == {"A", "J", "M", "S", "a", "b", "c", "d", "i", "l", "n", "o", "r", "v"}

Min(a, b) == IF a < b THEN a ELSE b

IsDigit(c) == c \in Digits

OnlyDigits(s) == SelectSeq(s, IsDigit)

\* JavaScript undefined, as a field of a lookup response
Undefined == "<undefined>"

\* a ?? b
Coalesce(a, b) == IF a = Undefined THEN b ELSE a

(***************************************************************************)
(* Mask engine (@/utils/mask, spec section 4.1).                           *)
(***************************************************************************)
CepDigits == 8

CepSplit == 5

\* cepMask(raw): non-digits are stripped, the digits are cut at eight and
\* written DDDDD-DDD; complete at eight digits.
cepMask(raw) ==
    LET all == OnlyDigits(raw)
        d   == SubSeq(all, 1, Min(Len(all), CepDigits))
    IN  [ value         |-> IF Len(d) > CepSplit
                            THEN SubSeq(d, 1, CepSplit) \o <<"-">> \o SubSeq(d, CepSplit + 1, Len(d))
                            ELSE d,
          unmaskedValue |-> d,
          isComplete    |-> Len(d) = CepDigits ]

PhoneMinDigits == 10

PhoneMaxDigits == 11

\* phoneNumberMask(raw).isComplete: ten or eleven digits
phoneIsComplete(raw) ==
    LET n == Len(OnlyDigits(raw)) IN n = PhoneMinDigits \/ n = PhoneMaxDigits

CpfDigits == 11

\* cpfMask(raw).isComplete: eleven digits
cpfIsComplete(raw) == Len(OnlyDigits(raw)) = CpfDigits

(***************************************************************************)
(* The directory service behind getCepData (@/utils/getCep, spec 4.2):     *)
(* the record of each registered postal code, keyed by its digits.  A      *)
(* lookup of any other code fails, and any lookup can fail in transport.   *)
(***************************************************************************)
CepA == <<"0", "1", "0", "0", "1", "0", "0", "0">>

CepB == <<"2", "0", "0", "4", "0", "0", "2", "0">>

\* a well-formed postal code that is not registered
CepC == <<"9", "9", "9", "9", "9", "9", "9", "9">>

RegisteredCeps == {CepA, CepB}

\* the record of a registered code
Directory(unmasked) ==
    IF unmasked = CepA
    THEN [ localidade |-> "Sao Paulo", bairro |-> "Centro", logradouro |-> "Praca da Se",
           complemento |-> "lado impar", uf |-> "SP" ]
    ELSE [ localidade |-> "Rio de Janeiro", bairro |-> "Centro", logradouro |-> "Avenida Rio Branco",
           complemento |-> Undefined, uf |-> "RJ" ]

(***************************************************************************)
(* The component's helpers on the address group (lines 103-111).           *)
(***************************************************************************)
\* setAddressValues (lines 105-111): five setValue calls, each with ?? ''
setAddressValues(addr, rec) ==
    [addr EXCEPT !.city       = Coalesce(rec.localidade, ""),
                 !.district   = Coalesce(rec.bairro, ""),
                 !.street     = Coalesce(rec.logradouro, ""),
                 !.complement = Coalesce(rec.complemento, ""),
                 !.uf         = Coalesce(rec.uf, "")]

\* defect variant of CacheKey: the cache is searched with the digits alone
CacheKeyUnmasked(m) == m.unmaskedValue

\* the key the cache is searched with (line 135): cep === maskedCep
CacheKey(m) == m.value

\* cepsCache.current.find(({cep}) => cep === key) (line 135): the index of the
\* first entry with that key, 0 when there is none (find returns undefined)
cepAlreadyExist(cache, key) ==
    IF \E i \in 1..Len(cache) : cache[i].cep = key
    THEN CHOOSE i \in 1..Len(cache) :
            /\ cache[i].cep = key
            /\ \A j \in 1..(i - 1) : cache[j].cep # key
    ELSE 0

\* defect variant of LookupGuard: the completeness test is missing
LookupGuardAlways(m) == TRUE

\* the condition of line 134
LookupGuard(m) == m.isComplete

\* defect variant of CacheEntry: the entry is keyed by the digits alone
CacheEntryUnmaskedKey(l, rec) ==
    [ cep |-> l.unmasked, bairro |-> rec.bairro, localidade |-> rec.localidade,
      logradouro |-> rec.logradouro, complemento |-> rec.complemento, uf |-> rec.uf ]

\* the entry pushed at line 146, keyed by the maskedCep of the effect run
\* that made the call
CacheEntry(l, rec) ==
    [ cep |-> l.masked, bairro |-> rec.bairro, localidade |-> rec.localidade,
      logradouro |-> rec.logradouro, complemento |-> rec.complemento, uf |-> rec.uf ]

\* the call of line 141: a new promise, pending; masked is the maskedCep the
\* callback closes over
NewLookup(m) == [ unmasked |-> m.unmaskedValue, masked |-> m.value, status |-> "pending" ]

\* defect variant of CacheAtIssue: an entry is pushed when the call is made
CacheAtIssueEager(cache, m) ==
    Append(cache, [ cep |-> m.value, bairro |-> Undefined, localidade |-> Undefined,
                    logradouro |-> Undefined, complemento |-> Undefined, uf |-> Undefined ])

\* the cache after getCepData has been called at line 141: the push of line
\* 146 is inside the callback, so the call itself writes nothing
CacheAtIssue(cache, m) == cache

(***************************************************************************)
(* schemaForm (lines 36-75) as zod parses it.  A parse yields the issues   *)
(* it raised, in order, and whether it aborted: a value of the wrong type  *)
(* (here, a group none of whose fields was ever registered, so that the    *)
(* group is undefined in the form values) aborts, a failed check or refine *)
(* only marks the result dirty.  An issue is [path, message]; a path       *)
(* element is the sequence of the dot-free names it is made of, so         *)
(* <<"account", "passwordConfirm">> is the one element                     *)
(* 'account.passwordConfirm'.                                              *)
(***************************************************************************)
stepToFormProp == <<"personal", "address", "account">>

Genders == {"male", "female", "other"}

NameMinLen == 4

TextMinLen == 3

TextMaxLen == 60

UfLen == 2

Issue(path, message) == [ path |-> path, message |-> message ]

Field(group, name) == << <<group>>, <<name>> >>

\* an issue when the check fails, none when it passes
Check(ok, path, message) == IF ok THEN <<>> ELSE << Issue(path, message) >>

\* /[\p{Letter}\s]+/gu (lines 42, 46) is not anchored: it matches as soon as
\* one character is a letter or white space
MatchesLetters(s) == \E i \in 1..Len(s) : s[i] \in Letters \/ s[i] = " "

\* /^\d+$/ (line 63)
MatchesNumber(s) == Len(s) > 0 /\ \A i \in 1..Len(s) : s[i] \in Digits

\* z.string().email (line 67), reduced to: one '@', a non-empty local part,
\* and a '.' inside the domain with text on both sides
IsEmail(s) ==
    \E i \in 2..Len(s) :
        /\ s[i] = "@"
        /\ \A j \in 1..Len(s) : s[j] = "@" => j = i
        /\ \E k \in (i + 2)..(Len(s) - 1) : s[k] = "."

\* a string: min(4) and the regex are both checked, in that order (lines 39-46)
NameIssues(group, name, v) ==
    Check(Len(v) >= NameMinLen, Field(group, name), "Insira um nome valido")
    \o Check(MatchesLetters(v), Field(group, name), "So pode conter letras")

\* min(3).max(60) (lines 56, 58-62)
TextIssues(group, name, v, tooShort) ==
    Check(Len(v) >= TextMinLen, Field(group, name), tooShort)
    \o Check(Len(v) <= TextMaxLen, Field(group, name), "Quantidade de digitos ultrapassou o limite")

\* lines 38-53; bornDate is z.any() and raises nothing
PersonalParse(isRegistered, p) ==
    IF ~isRegistered
    THEN [ issues |-> << Issue(<< <<"personal">> >>, "Required") >>, aborted |-> TRUE ]
    ELSE [ issues |->
             NameIssues("personal", "firstName", p.firstName)
             \o NameIssues("personal", "lastName", p.lastName)
             \o Check(phoneIsComplete(p.phone), Field("personal", "phone"), "O numero precisa ser valido")
             \o Check(cpfIsComplete(p.cpf), Field("personal", "cpf"), "O CPF precisa ser valido")
             \o Check(p.gender \in Genders, Field("personal", "gender"), "Invalid enum value"),
           aborted |-> p.gender \notin Genders ]

\* lines 54-65
AddressParse(isRegistered, a) ==
    IF ~isRegistered
    THEN [ issues |-> << Issue(<< <<"address">> >>, "Required") >>, aborted |-> TRUE ]
    ELSE [ issues |->
             Check(cepMask(a.cep).isComplete, Field("address", "cep"), "O cep precisa ser valido")
             \o TextIssues("address", "city", a.city, "Tamanho minimo desse campo e 3")
             \o Check(Len(a.uf) = UfLen, Field("address", "uf"), "Insira uma UF valida")
             \o TextIssues("address", "district", a.district, "Tamanho minimo desse campo e 2")
             \o TextIssues("address", "street", a.street, "Tamanho minimo desse campo e 2")
             \o Check(MatchesNumber(a.streetNumber), Field("address", "streetNumber"), "So pode conter numeros")
             \o Check(Len(a.complement) <= TextMaxLen, Field("address", "complement"),
                      "Quantidade de digitos ultrapassou o limite"),
           aborted |-> FALSE ]

\* lines 66-70
AccountParse(isRegistered, c) ==
    IF ~isRegistered
    THEN [ issues |-> << Issue(<< <<"account">> >>, "Required") >>, aborted |-> TRUE ]
    ELSE [ issues |-> Check(IsEmail(c.email), Field("account", "email"), "Insira um e-mail valido"),
           aborted |-> FALSE ]

MismatchMessage == "As senhas nao conferem"

\* the path option of the refine (line 74): one element, with a dot in it
RefinePath == << <<"account", "passwordConfirm">> >>

\* the refine of lines 72-75, which zod runs on the parsed object unless the
\* parse of the object aborted
RefineIssues(aborted, c) ==
    IF aborted \/ c.password = c.passwordConfirm
    THEN <<>>
    ELSE << Issue(RefinePath, MismatchMessage) >>

\* schemaForm.safeParse(values): the three groups are all parsed, then the refine
SchemaIssues(reg, p, a, c) ==
    LET pp == PersonalParse("personal" \in reg, p)
        ap == AddressParse("address" \in reg, a)
        cp == AccountParse("account" \in reg, c)
    IN  pp.issues \o ap.issues \o cp.issues
        \o RefineIssues(pp.aborted \/ ap.aborted \/ cp.aborted, c)

(***************************************************************************)
(* zodResolver: every issue's path is joined with '.', the first issue of  *)
(* each joined name is kept, and the names are then split at the dots      *)
(* again to nest the errors (errors.account.passwordConfirm).  An error is *)
(* [name, message], name being the nested name.                            *)
(***************************************************************************)
RECURSIVE Flatten(_)
Flatten(path) == IF path = <<>> THEN <<>> ELSE Head(path) \o Flatten(Tail(path))

ErrorName(path) == Flatten(path)

Resolver(reg, p, a, c) ==
    LET iss == SchemaIssues(reg, p, a, c)
    IN  { [ name |-> ErrorName(iss[i].path), message |-> iss[i].message ] :
            i \in { k \in 1..Len(iss) :
                      \A j \in 1..(k - 1) : ErrorName(iss[j].path) # ErrorName(iss[k].path) } }

\* errors[group] !== undefined (line 164)
HasGroupError(errs, group) == \E e \in errs : e.name[1] = group

\* react-hook-form after a submit (reValidateMode 'onChange'): a change event
\* of the fields `names` runs the resolver and replaces the errors filed
\* under exactly these names; before the first submit nothing is validated
Revalidated(errs, submitted, names, reg, p, a, c) ==
    IF ~submitted
    THEN errs
    ELSE { e \in errs : e.name \notin names }
         \cup { e \in Resolver(reg, p, a, c) : e.name \in names }

(***************************************************************************)
(* Initial state: the first render, with activeStep 1 (line 152), so only  *)
(* the Controllers of the address step are mounted, each with defaultValue *)
(* '' (lines 303-413).                                                     *)
(***************************************************************************)
DefaultPersonal ==
    [ firstName |-> <<>>, lastName |-> <<>>, phone |-> <<>>, cpf |-> <<>>, gender |-> "male" ]

DefaultAddress ==
    [ cep |-> <<>>, city |-> "", uf |-> "", district |-> "", street |-> "",
      streetNumber |-> <<>>, complement |-> "" ]

DefaultAccount == [ email |-> <<>>, password |-> "", passwordConfirm |-> "" ]

InitialStep == 1

LastStep == 2

NoRun == [ kind |-> "none", raw |-> <<>> ]

NoSubmit ==
    [ outcome |-> "none", step |-> InitialStep, valid |-> FALSE,
      groupFresh |-> FALSE, groupSeen |-> FALSE ]

Init ==
    /\ address = DefaultAddress
    /\ personal = DefaultPersonal
    /\ account = DefaultAccount
    /\ registered = {stepToFormProp[InitialStep + 1]}
    /\ cepDep = <<>>
    /\ cepsCache = <<>>
    /\ lookups = <<>>
    /\ lastRun = NoRun
    /\ activeStep = InitialStep
    /\ errors = {}
    /\ isSubmitted = FALSE
    /\ lastSubmit = NoSubmit

(***************************************************************************)
(* What the user can put into the fields.                                  *)
(***************************************************************************)
MaskedA == <<"0", "1", "0", "0", "1", "-", "0", "0", "0">>

MaskedB == <<"2", "0", "0", "4", "0", "-", "0", "2", "0">>

MaskedC == <<"9", "9", "9", "9", "9", "-", "9", "9", "9">>

\* cleared, incomplete with a letter, pasted without the dash, typed
CepInputs == { <<>>, <<"0", "1", "a">>, CepA, MaskedA, MaskedB, MaskedC }

PersonalInputs ==
    { [ firstName |-> <<"M", "a", "r", "i", "a">>, lastName |-> <<"S", "i", "l", "v", "a">>,
        phone |-> <<"(", "1", "1", ")", " ", "9", "8", "7", "6", "5", "-", "4", "3", "2", "1">>,
        cpf |-> <<"1", "2", "3", ".", "4", "5", "6", ".", "7", "8", "9", "-", "0", "9">>,
        gender |-> "female" ],
      [ firstName |-> <<"A", "n", "a">>, lastName |-> <<"S", "i", "l", "v", "a">>,
        phone |-> <<"(", "1", "1", ")", " ", "9", "8", "7", "6", "5", "-", "4", "3", "2", "1">>,
        cpf |-> <<"1", "2", "3", ".", "4", "5", "6", ".", "7", "8", "9", "-", "0", "9">>,
        gender |-> "male" ] }

StreetNumberInputs == { <<"1", "2">>, <<"1", "a">> }

CityInputs == { "Niteroi" }

GoodEmail == <<"a", "@", "b", ".", "c", "o">>

AccountInputs ==
    { [ email |-> GoodEmail, password |-> "abc123", passwordConfirm |-> "abc123" ],
      [ email |-> GoodEmail, password |-> "abc123", passwordConfirm |-> "abc124" ],
      [ email |-> <<"a", "b">>, password |-> "abc123", passwordConfirm |-> "abc123" ] }

PersonalNames == { <<"personal", f>> : f \in {"firstName", "lastName", "phone", "cpf", "gender"} }

AccountNames == { <<"account", f>> : f \in {"email", "password", "passwordConfirm"} }

\* the passive effects of a render run before the next event is handled
EffectsFlushed == cepDep = address.cep

(***************************************************************************)
(* The postal-code field and its effect (lines 125-149).                   *)
(***************************************************************************)
\* The user edits the CEP field (rendered on step 1 only, line 301): the
\* Controller's onChange stores the text as typed or pasted.
ChangeCep(v) ==
    /\ activeStep = 1
    /\ EffectsFlushed
    /\ Len(lookups) < MaxLookups
    /\ v # address.cep
    /\ address' = [address EXCEPT !.cep = v]
    /\ errors' = Revalidated(errors, isSubmitted, {<<"address", "cep">>},
                             registered, personal, address', account)
    /\ UNCHANGED <<personal, account, registered, activeStep, isSubmitted, lastSubmit>>
    /\ UNCHANGED lookupVars

\* One run of the effect, for a cepValue that differs from the one of the
\* previous run.  The setValue of line 132 changes cepValue when the text was
\* not in masked form, and the effect then runs once more.
CepEffect ==
    /\ ~EffectsFlushed
    /\ cepDep' = address.cep
    /\ LET cepValue  == address.cep
           cepMasked == cepMask(cepValue)
           masked    == [address EXCEPT !.cep = cepMasked.value]
           found     == cepAlreadyExist(cepsCache, CacheKey(cepMasked))
       IN  IF cepValue = <<>>
           THEN /\ lastRun' = [ kind |-> "empty", raw |-> cepValue ]
                /\ UNCHANGED <<address, lookups, cepsCache>>
           ELSE IF ~LookupGuard(cepMasked)
           THEN /\ lastRun' = [ kind |-> "incomplete", raw |-> cepValue ]
                /\ address' = masked
                /\ UNCHANGED <<lookups, cepsCache>>
           ELSE IF found # 0
           THEN /\ lastRun' = [ kind |-> "hit", raw |-> cepValue ]
                /\ address' = setAddressValues(masked, cepsCache[found])
                /\ UNCHANGED <<lookups, cepsCache>>
           ELSE /\ lastRun' = [ kind |-> "miss", raw |-> cepValue ]
                /\ address' = masked
                /\ lookups' = Append(lookups, NewLookup(cepMasked))
                /\ cepsCache' = CacheAtIssue(cepsCache, cepMasked)
    /\ UNCHANGED formVars

\* defect variant of Resolved: the answer of a superseded lookup is dropped
ResolvedDiscardStale(i) ==
    /\ i \in 1..Len(lookups)
    /\ lookups[i].status = "pending"
    /\ lookups[i].unmasked \in RegisteredCeps
    /\ EffectsFlushed
    /\ lookups' = [lookups EXCEPT ![i].status = "fulfilled"]
    /\ IF lookups[i].masked = address.cep
       THEN /\ address' = setAddressValues(address, Directory(lookups[i].unmasked))
            /\ cepsCache' = Append(cepsCache, CacheEntry(lookups[i], Directory(lookups[i].unmasked)))
       ELSE UNCHANGED <<address, cepsCache>>
    /\ UNCHANGED <<cepDep, lastRun>>
    /\ UNCHANGED formVars

\* The callback of lines 141-147 runs with the address of a fulfilled lookup.
\* It reads nothing of the current state: not cepValue, not the cache.
Resolved(i) ==
    /\ i \in 1..Len(lookups)
    /\ lookups[i].status = "pending"
    /\ lookups[i].unmasked \in RegisteredCeps
    /\ EffectsFlushed
    /\ lookups' = [lookups EXCEPT ![i].status = "fulfilled"]
    /\ address' = setAddressValues(address, Directory(lookups[i].unmasked))
    /\ cepsCache' = Append(cepsCache, CacheEntry(lookups[i], Directory(lookups[i].unmasked)))
    /\ UNCHANGED <<cepDep, lastRun>>
    /\ UNCHANGED formVars

\* defect variant of Rejected: a failure runs the callback with no address
RejectedClearsFields(i) ==
    /\ i \in 1..Len(lookups)
    /\ lookups[i].status = "pending"
    /\ EffectsFlushed
    /\ lookups' = [lookups EXCEPT ![i].status = "rejected"]
    /\ address' = setAddressValues(address,
                     [ localidade |-> Undefined, bairro |-> Undefined, logradouro |-> Undefined,
                       complemento |-> Undefined, uf |-> Undefined ])
    /\ UNCHANGED <<cepDep, cepsCache, lastRun>>
    /\ UNCHANGED formVars

\* The lookup fails (code not registered, or transport failure): the promise
\* is rejected, and then() was given no rejection handler (line 141), so
\* nothing of the component runs.
Rejected(i) ==
    /\ i \in 1..Len(lookups)
    /\ lookups[i].status = "pending"
    /\ EffectsFlushed
    /\ lookups' = [lookups EXCEPT ![i].status = "rejected"]
    /\ UNCHANGED <<address, cepDep, cepsCache, lastRun>>
    /\ UNCHANGED formVars

(***************************************************************************)
(* The other fields, each rendered on its own step (lines 201, 301, 417).  *)
(***************************************************************************)
ChangeCity(v) ==
    /\ activeStep = 1
    /\ EffectsFlushed
    /\ v # address.city
    /\ address' = [address EXCEPT !.city = v]
    /\ errors' = Revalidated(errors, isSubmitted, {<<"address", "city">>},
                             registered, personal, address', account)
    /\ UNCHANGED <<personal, account, registered, activeStep, isSubmitted, lastSubmit>>
    /\ UNCHANGED lookupVars

ChangeStreetNumber(v) ==
    /\ activeStep = 1
    /\ EffectsFlushed
    /\ v # address.streetNumber
    /\ address' = [address EXCEPT !.streetNumber = v]
    /\ errors' = Revalidated(errors, isSubmitted, {<<"address", "streetNumber">>},
                             registered, personal, address', account)
    /\ UNCHANGED <<personal, account, registered, activeStep, isSubmitted, lastSubmit>>
    /\ UNCHANGED lookupVars

\* the fields of step 0, filled in (each change event re-validates its field)
FillPersonal(p) ==
    /\ activeStep = 0
    /\ EffectsFlushed
    /\ p # personal
    /\ personal' = p
    /\ errors' = Revalidated(errors, isSubmitted,
                             { n \in PersonalNames : p[n[2]] # personal[n[2]] },
                             registered, personal', address, account)
    /\ UNCHANGED <<address, account, registered, activeStep, isSubmitted, lastSubmit>>
    /\ UNCHANGED lookupVars

\* the fields of step 2, filled in
FillAccount(c) ==
    /\ activeStep = LastStep
    /\ EffectsFlushed
    /\ c # account
    /\ account' = c
    /\ errors' = Revalidated(errors, isSubmitted,
                             { n \in AccountNames : c[n[2]] # account[n[2]] },
                             registered, personal, address, account')
    /\ UNCHANGED <<address, personal, registered, activeStep, isSubmitted, lastSubmit>>
    /\ UNCHANGED lookupVars

(***************************************************************************)
(* Step navigation (lines 152-185, 508-511).                               *)
(***************************************************************************)
\* handleNextActiveStep (lines 179-181)
handleNextActiveStep(step) == step + 1

\* handlePrevActiveStep (lines 183-185)
handlePrevActiveStep(step) == step - 1

\* defect variant of onSubmitError: the test of line 164 is missing
onSubmitErrorIgnoresErrors(errs, step) ==
    IF step # LastStep THEN handleNextActiveStep(step) ELSE step

\* onSubmitError (lines 156-167): the step it leaves, given the errors it reads
onSubmitError(errs, step) ==
    IF HasGroupError(errs, stepToFormProp[step + 1])
    THEN step
    ELSE IF step # LastStep THEN handleNextActiveStep(step) ELSE step

\* onSubmit (lines 169-177): the step it leaves, and whether it reached the alert
onSubmit(step) ==
    IF step # LastStep
    THEN [ step |-> handleNextActiveStep(step), alert |-> FALSE ]
    ELSE [ step |-> step, alert |-> TRUE ]

\* The errors onSubmitError reads at line 164: `errors` is a constant of the
\* render that created the handler (line 87), and handleSubmit calls the
\* handler before it publishes the errors of the attempt to formState, so
\* the handler reads the errors the form had before the attempt.
ErrorsRead(rendered, fresh) == rendered

\* the Controllers of the step now rendered register their fields; the
\* form renders fields for activeStep 0, 1 and 2 only (lines 201, 301, 417)
Mounted(reg, step) ==
    IF step \in 0..LastStep THEN reg \cup {stepToFormProp[step + 1]} ELSE reg

\* A click on the submit button (line 510): handleSubmit (line 200) runs the
\* resolver on all the form values, calls onSubmit when there is no error and
\* onSubmitError otherwise, and then publishes the errors and isSubmitted.
Submit ==
    /\ EffectsFlushed
    /\ LET fresh == Resolver(registered, personal, address, account)
           seen  == ErrorsRead(errors, fresh)
           valid == fresh = {}
           next  == IF valid THEN onSubmit(activeStep).step ELSE onSubmitError(seen, activeStep)
           alert == valid /\ onSubmit(activeStep).alert
       IN  /\ activeStep' = next
           /\ registered' = Mounted(registered, next)
           /\ errors' = fresh
           /\ isSubmitted' = TRUE
           /\ lastSubmit' = [ outcome |-> IF alert THEN "alert"
                                          ELSE IF next = activeStep THEN "stayed" ELSE "advanced",
                              step |-> activeStep, valid |-> valid,
                              groupFresh |-> HasGroupError(fresh, stepToFormProp[activeStep + 1]),
                              groupSeen |-> HasGroupError(seen, stepToFormProp[activeStep + 1]) ]
    /\ UNCHANGED <<address, personal, account>>
    /\ UNCHANGED lookupVars

\* defect variant of Back: the button is rendered on step 0 as well
BackUnguarded ==
    /\ EffectsFlushed
    /\ activeStep' = handlePrevActiveStep(activeStep)
    /\ registered' = Mounted(registered, activeStep')
    /\ UNCHANGED <<address, personal, account, errors, isSubmitted, lastSubmit>>
    /\ UNCHANGED lookupVars

\* A click on Voltar, rendered when activeStep is not 0 (line 509)
Back ==
    /\ EffectsFlushed
    /\ activeStep # 0
    /\ activeStep' = handlePrevActiveStep(activeStep)
    /\ registered' = Mounted(registered, activeStep')
    /\ UNCHANGED <<address, personal, account, errors, isSubmitted, lastSubmit>>
    /\ UNCHANGED lookupVars

\* what happens on the address step: the CEP field, its effect, the lookups'
\* answers (which arrive on any step) and the other address fields
LookupNext ==
    \/ \E v \in CepInputs : ChangeCep(v)
    \/ CepEffect
    \/ \E i \in 1..(MaxLookups + 1) : Resolved(i)
    \/ \E i \in 1..(MaxLookups + 1) : Rejected(i)
    \/ \E v \in CityInputs : ChangeCity(v)
    \/ \E v \in StreetNumberInputs : ChangeStreetNumber(v)

\* the whole form, the CEP field taking the values of FormCepInputs only and
\* no longer edited once MaxFormLookups lookups have been made
FormCepInputs == { <<>>, MaskedA }

FormNext ==
    \/ \E v \in FormCepInputs : Len(lookups) < MaxFormLookups /\ ChangeCep(v)
    \/ CepEffect
    \/ \E i \in 1..(MaxLookups + 1) : Resolved(i)
    \/ \E i \in 1..(MaxLookups + 1) : Rejected(i)
    \/ \E v \in StreetNumberInputs : ChangeStreetNumber(v)
    \/ \E p \in PersonalInputs : FillPersonal(p)
    \/ \E c \in AccountInputs : FillAccount(c)
    \/ Submit
    \/ Back

Next ==
    \/ LookupNext
    \/ \E p \in PersonalInputs : FillPersonal(p)
    \/ \E c \in AccountInputs : FillAccount(c)
    \/ Submit
    \/ Back

\* every behaviour of the component within the bounds
Spec == Init /\ [][Next]_vars

\* The behaviours in which the user stays on the address step.  The other
\* steps' actions change none of address, cepDep, cepsCache, lookups and
\* lastRun, and only ChangeCep, ChangeCity and ChangeStreetNumber depend on
\* the step, so what Spec can do to these variables SpecLookup can do too.
SpecLookup == Init /\ [][LookupNext]_vars

\* The behaviours of the whole form with fewer edits of the CEP field.
SpecForm == Init /\ [][FormNext]_vars

(***************************************************************************)
(* Properties of the postal-code effect, the lookups and the cache.        *)
(***************************************************************************)
\* a step in which the cep effect runs: it alone moves cepDep
EffectRuns == cepDep' # cepDep

\* the five address fields hold the values of rec, absent values as ''
FilledFrom(addr, rec) ==
    /\ addr.city = (IF rec.localidade = Undefined THEN "" ELSE rec.localidade)
    /\ addr.district = (IF rec.bairro = Undefined THEN "" ELSE rec.bairro)
    /\ addr.street = (IF rec.logradouro = Undefined THEN "" ELSE rec.logradouro)
    /\ addr.complement = (IF rec.complemento = Undefined THEN "" ELSE rec.complemento)
    /\ addr.uf = (IF rec.uf = Undefined THEN "" ELSE rec.uf)

\* the lookups in the given state of their promise
LookupsIn(ls, status) == { i \in 1..Len(ls) : ls[i].status = status }

\* C1: whenever the cep effect runs with a complete postal code whose masked
\* form is a key of the cache, that run calls getCepData not at all and sets
\* the five address fields from a cached record of that key.
CacheHitSkipsLookup ==
    [][ ( /\ EffectRuns
          /\ address.cep # <<>>
          /\ cepMask(address.cep).isComplete
          /\ \E i \in 1..Len(cepsCache) : cepsCache[i].cep = cepMask(address.cep).value )
        => /\ lookups' = lookups
           /\ cepsCache' = cepsCache
           /\ \E i \in 1..Len(cepsCache) :
                 /\ cepsCache[i].cep = cepMask(address.cep).value
                 /\ FilledFrom(address', cepsCache[i]) ]_vars

\* a run of the effect hit the cache: the code in the field is cached, the
\* fields hold its record, and no more lookups were made than entries cached
CacheHitReached ==
    /\ lastRun.kind = "hit"
    /\ EffectsFlushed
    /\ \E i \in 1..Len(cepsCache) :
          cepsCache[i].cep = address.cep /\ FilledFrom(address, cepsCache[i])
    /\ Len(lookups) = Len(cepsCache)

\* C2: getCepData is called only by a run of the cep effect on a non-empty
\* cepValue that cepMask reports complete, and once in that run.
LookupOnlyWhenComplete ==
    [][ lookups' # lookups /\ Len(lookups') # Len(lookups)
        => /\ EffectRuns
           /\ address.cep # <<>>
           /\ cepMask(address.cep).isComplete
           /\ Len(cepMask(address.cep).unmaskedValue) = CepDigits
           /\ Len(lookups') = Len(lookups) + 1
           /\ lookups'[Len(lookups')].unmasked = cepMask(address.cep).unmaskedValue ]_vars

\* the effect called getCepData on a complete value, and then ran on an
\* incomplete one without a further call
LookupIssuedReached ==
    /\ lastRun.kind = "incomplete"
    /\ Len(lookups) = 1
    /\ lookups[1].status = "pending"

\* C3: the cache holds exactly one entry per fulfilled lookup, under that
\* lookup's postal code: issuing a lookup writes nothing, and neither does a
\* pending or rejected one.
CacheOnlyAfterSuccess ==
    /\ Len(cepsCache) = Cardinality(LookupsIn(lookups, "fulfilled"))
    /\ \A i \in 1..Len(cepsCache) :
          Cardinality({ j \in 1..Len(cepsCache) : cepsCache[j].cep = cepsCache[i].cep })
          = Cardinality({ j \in LookupsIn(lookups, "fulfilled") : lookups[j].masked = cepsCache[i].cep })

\* one lookup has been answered and cached while another is still pending
CachedWhilePendingReached ==
    /\ Len(cepsCache) = 1
    /\ LookupsIn(lookups, "pending") # {}
    /\ LookupsIn(lookups, "rejected") # {}

\* C4: every key of the cache is a postal code in masked form that cepMask
\* reports complete, and a lookup was issued for it.
CacheKeysComplete ==
    \A i \in 1..Len(cepsCache) :
        /\ cepMask(cepsCache[i].cep).isComplete
        /\ cepMask(cepsCache[i].cep).value = cepsCache[i].cep
        /\ Len(cepsCache[i].cep) = CepDigits + 1
        /\ \E j \in 1..Len(lookups) : lookups[j].masked = cepsCache[i].cep

\* the cache holds two different postal codes
TwoKeysReached ==
    \E i, j \in 1..Len(cepsCache) :
        cepsCache[i].cep = MaskedA /\ cepsCache[j].cep = MaskedB

\* C5: the answer of a lookup writes its record into the address fields
\* whatever the CEP field holds by then, and leaves the CEP field alone.
LateResponseOverwrites ==
    [][ \A i \in 1..Len(lookups) :
          ( /\ Len(lookups') = Len(lookups)
            /\ lookups[i].status = "pending"
            /\ lookups'[i].status = "fulfilled" )
          => /\ FilledFrom(address', Directory(lookups[i].unmasked))
             /\ address'.cep = address.cep ]_vars

\* the CEP field holds a complete code whose own lookup has been answered,
\* no lookup is pending, and the address fields hold the record of another
\* code: that code's answer came last, after the field had left it
StaleAddressReached ==
    /\ EffectsFlushed
    /\ cepMask(address.cep).isComplete
    /\ LookupsIn(lookups, "pending") = {}
    /\ \E j \in LookupsIn(lookups, "fulfilled") : lookups[j].masked = address.cep
    /\ \E i \in LookupsIn(lookups, "fulfilled") :
          /\ lookups[i].masked # address.cep
          /\ FilledFrom(address, Directory(lookups[i].unmasked))
          /\ ~FilledFrom(address, Directory(cepMask(address.cep).unmaskedValue))

CacheKeysUnique ==
    \A i, j \in 1..Len(cepsCache) : cepsCache[i].cep = cepsCache[j].cep => i = j

(***************************************************************************)
(* Properties of validation and of the submit handlers.                    *)
(***************************************************************************)
\* A step of Submit.  Every other action either changes a form value or
\* leaves errors, isSubmitted and lastSubmit alone and does not raise the
\* step; a Submit that changes none of these changes nothing at all.
SubmitStep ==
    \/ lastSubmit' # lastSubmit
    \/ isSubmitted' # isSubmitted
    \/ activeStep' > activeStep
    \/ errors' # errors /\ address' = address /\ personal' = personal /\ account' = account

\* the errors of a validation of the current form values
FreshErrors == Resolver(registered, personal, address, account)

ActiveGroup == stepToFormProp[activeStep + 1]

\* C7, as stated: a submit attempt whose validation fails on step 0 or 1
\* advances the step, and one on step 2 does not submit the form.
FailedSubmitAlwaysAdvances ==
    [][ SubmitStep /\ FreshErrors # {}
        => /\ activeStep # LastStep => activeStep' = activeStep + 1
           /\ activeStep = LastStep => lastSubmit'.outcome # "alert" ]_vars

\* C7, amended: a submit attempt whose validation fails never submits the
\* form; on step 0 or 1 it advances the step by one when the errors the form
\* held before the attempt have none in the active step's group, and leaves
\* the step where it is when they have one; on step 2 the step stays.
FailedSubmitAdvancesUnlessGroupError ==
    [][ SubmitStep /\ FreshErrors # {}
        => /\ lastSubmit'.outcome # "alert"
           /\ activeStep # LastStep /\ ~(\E e \in errors : e.name[1] = ActiveGroup)
                => activeStep' = activeStep + 1
           /\ activeStep # LastStep /\ (\E e \in errors : e.name[1] = ActiveGroup)
                => activeStep' = activeStep
           /\ activeStep = LastStep => activeStep' = activeStep ]_vars

\* a failed attempt has advanced from step 1 to step 2, where the user is now
FailedSubmitAdvancedReached ==
    /\ lastSubmit.outcome = "advanced"
    /\ ~lastSubmit.valid
    /\ lastSubmit.step = 1
    /\ activeStep = LastStep
    /\ errors # {}

\* C8: whenever the password and its confirmation differ, validation reports
\* the mismatch message under account.passwordConfirm and under no other
\* name; when they are equal it reports the message nowhere.
MismatchReportedOnConfirm ==
    /\ account.password # account.passwordConfirm
         => /\ [ name |-> <<"account", "passwordConfirm">>, message |-> MismatchMessage ] \in FreshErrors
            /\ \A e \in FreshErrors :
                 e.message = MismatchMessage => e.name = <<"account", "passwordConfirm">>
    /\ account.password = account.passwordConfirm
         => \A e \in FreshErrors : e.message # MismatchMessage

\* C9: a failed submit attempt on step 0 or 1 advances the step by one when
\* the errors of that attempt have none in the active step's group and
\* leaves it where it is otherwise; on step 2 the step does not change.
FailedSubmitDecidedByAttemptErrors ==
    [][ SubmitStep /\ FreshErrors # {}
        => /\ activeStep # LastStep /\ ~HasGroupError(FreshErrors, ActiveGroup)
                => activeStep' = activeStep + 1
           /\ activeStep # LastStep /\ HasGroupError(FreshErrors, ActiveGroup)
                => activeStep' = activeStep
           /\ activeStep = LastStep => activeStep' = activeStep ]_vars

\* C11: the active step starts as one of 0, 1, 2 and stays one of them: it
\* changes by one at a time, downwards only from a step other than 0 and by
\* a click on Voltar (no validation runs), upwards only from a step other
\* than 2 and by a submit attempt.
ActiveStepInRange ==
    /\ activeStep \in {0, 1, 2}
    /\ [][ /\ activeStep' \in {0, 1, 2}
           /\ activeStep' \in {activeStep - 1, activeStep, activeStep + 1}
           /\ activeStep' = activeStep - 1
                => /\ activeStep # 0
                   /\ errors' = errors /\ isSubmitted' = isSubmitted /\ lastSubmit' = lastSubmit
           /\ activeStep' = activeStep + 1
                => /\ activeStep # 2
                   /\ isSubmitted'
                   /\ errors' = FreshErrors
                   /\ lastSubmit'.outcome = "advanced" /\ lastSubmit'.step = activeStep ]_vars

\* the user is back on step 0 after submits took the form to step 2 and
\* Voltar was clicked twice, every step's fields having been rendered
AllStepsVisitedReached ==
    /\ activeStep = 0
    /\ isSubmitted
    /\ lastSubmit.outcome = "advanced"
    /\ lastSubmit.step = 1
    /\ registered = {"personal", "address", "account"}
====
